---- MODULE Spec2Model ----
(***************************************************************************)
(* Model of the line buffer (Row) and the Document of the deci editor.     *)
(*                                                                         *)
(* A text is a sequence of Unicode scalar values; each scalar value is a   *)
(* one-character string.  Indices of the Rust code are 0-based and are     *)
(* kept 0-based here; the TLA+ sequences are 1-based, so chars[i] of the   *)
(* code is chars[i + 1] below.  usize arithmetic is saturating or checked  *)
(* in the code; every quantity of the model stays far below 2^64, so the   *)
(* saturating operations are modelled by the exact ones.                   *)
(***************************************************************************)
EXTENDS Integers, Sequences, FiniteSets, TLC

VARIABLES
    row,        \* the row of the row-level state machine
    spare,      \* its second row: the one Row::split returned, the one to append
    rlog,       \* the last operation on row
    rows,       \* Document::rows
    dirty,      \* Document::dirty
    file_type,  \* the name of Document::file_type
    dlog,       \* the last operation on the document
    search,     \* a repeated forward search of the document
    file,       \* the file of the document: its name and its contents
    out         \* the last call of the file, display and highlighting machines

vars == <<row, spare, rlog, rows, dirty, file_type, dlog, search, file, out>>

rowVars == <<row, spare, rlog>>

docVars == <<rows, dirty, file_type, dlog, search>>

ioVars == <<file, out>>

(***************************************************************************)
(* Bounds of the model.                                                    *)
(***************************************************************************)
\* longest row text (in scalar values) the row-level actions build
MaxLen == 3
\* largest number of scalar values of a document the edits build
MaxDocLen == 3
\* largest number of rows of a document
MaxRows == 2
\* largest number of matches of one repeated search
MaxCalls == 6

(***************************************************************************)
(* Characters.  "M" stands for U+0301 COMBINING ACUTE ACCENT (a grapheme   *)
(* extender, two bytes in UTF-8, display width 0), "W" for a double-width  *)
(* character such as U+3042 (three bytes), "\t" is the tab (a control).    *)
(***************************************************************************)
IsExtend(c) == c = "M"

IsControl(c) == c \in {"\t", "\r"}

ByteLen(c) == IF c = "M" THEN 2 ELSE IF c = "W" THEN 3 ELSE 1

IsAsciiDigit(c) == c \in {"0", "1", "2", "3", "4", "5", "6", "7", "8", "9"}

\* char::is_ascii_punctuation (the backquote, which no text of the model
\* holds, has no TLA+ string)
IsAsciiPunctuation(c) ==
    c \in {"!", "\"", "#", "$", "%", "&", "'", "(", ")", "*", "+", ",", "-",
           ".", "/", ":", ";", "<", "=", ">", "?", "@", "[", "\\", "]", "^",
           "_", "{", "|", "}", "~"}

IsAsciiWhitespace(c) == c \in {" ", "\t", "\r", "\n"}

is_separator(c) == IsAsciiPunctuation(c) \/ IsAsciiWhitespace(c)

\* Option::None of an Option<usize>
None == -1

\* Option::None of an Option<Position>
NonePos == [x |-> None, y |-> None]

(***************************************************************************)
(* Strings: byte lengths, concatenation, str::find and str::rfind.         *)
(***************************************************************************)
RECURSIVE Flatten(_)
Flatten(ss) == IF ss = <<>> THEN <<>> ELSE Head(ss) \o Flatten(Tail(ss))

RECURSIVE StrByteLen(_)
StrByteLen(s) == IF s = <<>> THEN 0 ELSE ByteLen(Head(s)) + StrByteLen(Tail(s))

\* q occurs in s at the (0-based) scalar index i
OccursAt(s, q, i) ==
    /\ i + Len(q) <= Len(s)
    /\ \A k \in 1..Len(q) : s[i + k] = q[k]

MinOf(S) == CHOOSE m \in S : \A n \in S : m <= n

MaxOf(S) == CHOOSE m \in S : \A n \in S : n <= m

\* str::find: the byte index of the first occurrence of q in s
StrFind(s, q) ==
    LET occ == {i \in 0..Len(s) : OccursAt(s, q, i)}
    IN  IF occ = {} THEN None ELSE StrByteLen(SubSeq(s, 1, MinOf(occ)))

\* str::rfind: the byte index of the last occurrence of q in s
StrRFind(s, q) ==
    LET occ == {i \in 0..Len(s) : OccursAt(s, q, i)}
    IN  IF occ = {} THEN None ELSE StrByteLen(SubSeq(s, 1, MaxOf(occ)))

(***************************************************************************)
(* Extended grapheme clusters (unicode_segmentation, graphemes(true)): a   *)
(* grapheme extender joins the scalar value before it, unless that one is  *)
(* a control; there is a boundary before and after every control and at    *)
(* the start of the text.                                                  *)
(***************************************************************************)
RECURSIVE ExtendRun(_, _)
\* the number of extenders of s from the (1-based) index i on
ExtendRun(s, i) ==
    IF i <= Len(s) /\ IsExtend(s[i]) THEN 1 + ExtendRun(s, i + 1) ELSE 0

RECURSIVE Graphemes(_)
Graphemes(s) ==
    IF s = <<>> THEN <<>>
    ELSE LET n == IF IsControl(s[1]) THEN 1 ELSE 1 + ExtendRun(s, 2)
         IN  <<SubSeq(s, 1, n)>> \o Graphemes(SubSeq(s, n + 1, Len(s)))

\* str::grapheme_indices: the byte offset of the start of every grapheme
GraphemeIndices(s) ==
    LET g == Graphemes(s)
    IN  [i \in 1..Len(g) |-> StrByteLen(Flatten(SubSeq(g, 1, i - 1)))]

\* graphemes(true).skip(start).take(n).collect::<String>()
SkipTake(s, start, n) ==
    LET g == Graphemes(s)
    IN  Flatten(SubSeq(g, start + 1, IF start + n < Len(g) THEN start + n ELSE Len(g)))

(***************************************************************************)
(* Row                                                                     *)
(***************************************************************************)
\* Row::default()
RowDefault == [string |-> <<>>, highlighting |-> <<>>, len_full_width |-> 0]

\* impl From<&str> for Row
RowFrom(slice) ==
    [string |-> slice, highlighting |-> <<>>,
     len_full_width |-> Len(Graphemes(slice))]

\* Row::len
RowLen(r) == r.len_full_width

\* Row::insert
RowInsert(r, at, c) ==
    IF at >= RowLen(r)
    THEN [r EXCEPT !.string = Append(@, c), !.len_full_width = @ + 1]
    ELSE LET g == Graphemes(r.string)
             result == Flatten([i \in 1..Len(g) |->
                                  IF i - 1 = at THEN <<c>> \o g[i] ELSE g[i]])
             length == Len(g) + (IF at < Len(g) THEN 1 ELSE 0)
         IN  [r EXCEPT !.string = result, !.len_full_width = length]

\* Row::delete
RowDelete(r, at) ==
    IF at >= RowLen(r)
    THEN r
    ELSE LET g == Graphemes(r.string)
             result == Flatten([i \in 1..Len(g) |->
                                  IF i - 1 # at THEN g[i] ELSE <<>>])
             length == Cardinality({i \in 1..Len(g) : i - 1 # at})
         IN  [r EXCEPT !.string = result, !.len_full_width = length]

\* Row::append
RowAppend(r, new) ==
    [r EXCEPT !.string = r.string \o new.string,
              !.len_full_width = r.len_full_width + new.len_full_width]

\* Row::split with the grapheme at kept in the first half
RowSplitSelfOffByOne(r, at) ==
    LET g == Graphemes(r.string)
        n == Cardinality({i \in 1..Len(g) : i - 1 <= at})
    IN  [r EXCEPT !.string = Flatten(SubSeq(g, 1, n)), !.len_full_width = n]

\* Row::split: the first half, which stays in self
RowSplitSelf(r, at) ==
    LET g == Graphemes(r.string)
        n == Cardinality({i \in 1..Len(g) : i - 1 < at})
    IN  [r EXCEPT !.string = Flatten(SubSeq(g, 1, n)), !.len_full_width = n]

\* Row::split: the second half, which is returned
RowSplitReturned(r, at) ==
    LET g == Graphemes(r.string)
        n == Cardinality({i \in 1..Len(g) : i - 1 < at})
    IN  [string |-> Flatten(SubSeq(g, n + 1, Len(g))),
         len_full_width |-> Len(g) - n,
         highlighting |-> <<>>]

\* Row::find without the test of the empty query
RowFindNoEmptyCheck(r, query, at, direction) ==
    IF at > r.len_full_width
    THEN None
    ELSE LET start == IF direction = "Forward" THEN at ELSE 0
             end == IF direction = "Forward" THEN r.len_full_width ELSE at
             substring == SkipTake(r.string, start, end - start)
             matching_byte_index ==
                 IF direction = "Forward" THEN StrFind(substring, query)
                 ELSE StrRFind(substring, query)
             gi == GraphemeIndices(substring)
             hit == {k \in 1..Len(gi) : gi[k] = matching_byte_index}
         IN  IF matching_byte_index = None \/ hit = {}
             THEN None
             ELSE start + (MinOf(hit) - 1)

\* Row::find with the forward search starting at the start of the row
RowFindFromStart(r, query, at, direction) ==
    IF at > r.len_full_width \/ query = <<>>
    THEN None
    ELSE LET start == 0
             end == IF direction = "Forward" THEN r.len_full_width ELSE at
             substring == SkipTake(r.string, start, end - start)
             matching_byte_index ==
                 IF direction = "Forward" THEN StrFind(substring, query)
                 ELSE StrRFind(substring, query)
             gi == GraphemeIndices(substring)
             hit == {k \in 1..Len(gi) : gi[k] = matching_byte_index}
         IN  IF matching_byte_index = None \/ hit = {}
             THEN None
             ELSE start + (MinOf(hit) - 1)

\* Row::find
RowFind(r, query, at, direction) ==
    IF at > r.len_full_width \/ query = <<>>
    THEN None
    ELSE LET start == IF direction = "Forward" THEN at ELSE 0
             end == IF direction = "Forward" THEN r.len_full_width ELSE at
             substring == SkipTake(r.string, start, end - start)
             matching_byte_index ==
                 IF direction = "Forward" THEN StrFind(substring, query)
                 ELSE StrRFind(substring, query)
             gi == GraphemeIndices(substring)
             hit == {k \in 1..Len(gi) : gi[k] = matching_byte_index}
         IN  IF matching_byte_index = None \/ hit = {}
             THEN None
             ELSE start + (MinOf(hit) - 1)

(***************************************************************************)
(* Highlighting.  A rule takes the scan position index and the tags pushed *)
(* so far and answers [ok, index, hl]: whether it matched, and the scan    *)
(* position and the tags after it.                                         *)
(***************************************************************************)
\* HighlightingOptions of a file that is not a Rust file
DefaultOptions ==
    [numbers |-> FALSE, strings |-> FALSE, characters |-> FALSE,
     comments |-> FALSE, primary_keywords |-> <<>>, secondary_keywords |-> <<>>]

\* HighlightingOptions of a Rust file
RustOptions ==
    [numbers |-> TRUE, strings |-> TRUE, characters |-> TRUE,
     comments |-> TRUE, primary_keywords |-> <<>>, secondary_keywords |-> <<>>]

\* FileType::highlighting_options
highlighting_options(ftype) ==
    IF ftype = "Rust" THEN RustOptions ELSE DefaultOptions

\* n tags t
Rep(t, n) == [i \in 1..n |-> t]

\* chars.get(i): the scalar value at the 0-based index i, "" when there is none
Get(chars, i) == IF i >= 0 /\ i < Len(chars) THEN chars[i + 1] ELSE ""

Miss(index, hl) == [ok |-> FALSE, index |-> index, hl |-> hl]

Hit(index, hl) == [ok |-> TRUE, index |-> index, hl |-> hl]

\* Row::highlight_str
highlight_str(index, hl, substring, chars, hl_type) ==
    IF substring = <<>>
    THEN Miss(index, hl)
    ELSE IF \E k \in 0..(Len(substring) - 1) :
                Get(chars, index + k) # substring[k + 1]
         THEN Miss(index, hl)
         ELSE Hit(index + StrByteLen(substring),
                  hl \o Rep(hl_type, StrByteLen(substring)))

RECURSIVE highlight_words(_, _, _, _, _)
\* the loop over the keywords of Row::highlight_keywords
highlight_words(index, hl, chars, keywords, hl_type) ==
    IF keywords = <<>>
    THEN Miss(index, hl)
    ELSE LET word == Head(keywords)
             limit == IF Len(chars) > StrByteLen(word)
                      THEN Len(chars) - StrByteLen(word) ELSE 0
             skip == /\ index < limit
                     /\ ~is_separator(chars[index + StrByteLen(word) + 1])
             r == highlight_str(index, hl, word, chars, hl_type)
         IN  IF ~skip /\ r.ok
             THEN r
             ELSE highlight_words(index, hl, chars, Tail(keywords), hl_type)

\* Row::highlight_keywords without the look at the character before
highlight_keywords_anywhere(index, hl, chars, keywords, hl_type) ==
    highlight_words(index, hl, chars, keywords, hl_type)

\* Row::highlight_keywords
highlight_keywords(index, hl, chars, keywords, hl_type) ==
    IF index > 0 /\ ~is_separator(chars[index])
    THEN Miss(index, hl)
    ELSE highlight_words(index, hl, chars, keywords, hl_type)

\* Row::highlight_char
highlight_char(index, hl, opts, c, chars) ==
    IF opts.characters /\ c = "'" /\ index + 1 < Len(chars)
    THEN LET closing_index == IF Get(chars, index + 1) = "\\"
                              THEN index + 3 ELSE index + 2
             n == closing_index - index + 1
         IN  IF Get(chars, closing_index) = "'"
             THEN Hit(index + n, hl \o Rep("Character", n))
             ELSE Miss(index, hl)
    ELSE Miss(index, hl)

\* Row::highlight_comment tagging the two slashes only
highlight_comment_slashes(index, hl, opts, c, chars) ==
    IF opts.comments /\ c = "/" /\ index < Len(chars)
       /\ Get(chars, index + 1) = "/"
    THEN Hit(index + 2, hl \o Rep("Comment", 2))
    ELSE Miss(index, hl)

\* Row::highlight_comment
highlight_comment(index, hl, opts, c, chars) ==
    IF opts.comments /\ c = "/" /\ index < Len(chars)
       /\ Get(chars, index + 1) = "/"
    THEN Hit(Len(chars), hl \o Rep("Comment", Len(chars) - index))
    ELSE Miss(index, hl)

RECURSIVE StringRun(_, _)
\* the loop of Row::highlight_string: the number of its iterations
StringRun(index, chars) ==
    IF Get(chars, index + 1) = "\"" \/ index + 1 >= Len(chars)
    THEN 1
    ELSE 1 + StringRun(index + 1, chars)

\* Row::highlight_string
highlight_string(index, hl, opts, c, chars) ==
    IF opts.strings /\ c = "\""
    THEN LET n == StringRun(index, chars)
         IN  Hit(index + n + 1, hl \o Rep("String", n + 1))
    ELSE Miss(index, hl)

RECURSIVE NumberRun(_, _)
\* the loop of Row::highlight_number: the number of its iterations
NumberRun(index, chars) ==
    IF index + 1 >= Len(chars)
       \/ (Get(chars, index + 1) # "." /\ ~IsAsciiDigit(Get(chars, index + 1)))
    THEN 1
    ELSE 1 + NumberRun(index + 1, chars)

\* Row::highlight_number
highlight_number(index, hl, opts, c, chars) ==
    IF opts.numbers /\ IsAsciiDigit(c)
    THEN IF index > 0 /\ ~is_separator(chars[index])
         THEN Miss(index, hl)
         ELSE LET n == NumberRun(index, chars)
              IN  Hit(index + n, hl \o Rep("Number", n))
    ELSE Miss(index, hl)

\* one turn of the loop of Row::highlight with the number rule tried first
highlight_step_number_first(index, hl, opts, chars) ==
    LET c == chars[index + 1]
        r1 == highlight_char(index, hl, opts, c, chars)
        r2 == highlight_comment(index, hl, opts, c, chars)
        r3 == highlight_keywords(index, hl, chars, opts.primary_keywords,
                                 "PrimaryKeywords")
        r4 == highlight_keywords(index, hl, chars, opts.secondary_keywords,
                                 "SecondaryKeywords")
        r5 == highlight_string(index, hl, opts, c, chars)
        r6 == highlight_number(index, hl, opts, c, chars)
    IN  IF r6.ok THEN r6
        ELSE IF r1.ok THEN r1
        ELSE IF r2.ok THEN r2
        ELSE IF r3.ok THEN r3
        ELSE IF r4.ok THEN r4
        ELSE IF r5.ok THEN r5
        ELSE Hit(index + 1, Append(hl, "None"))

\* one turn of the loop of Row::highlight: the rules in their order
highlight_step(index, hl, opts, chars) ==
    LET c == chars[index + 1]
        r1 == highlight_char(index, hl, opts, c, chars)
        r2 == highlight_comment(index, hl, opts, c, chars)
        r3 == highlight_keywords(index, hl, chars, opts.primary_keywords,
                                 "PrimaryKeywords")
        r4 == highlight_keywords(index, hl, chars, opts.secondary_keywords,
                                 "SecondaryKeywords")
        r5 == highlight_string(index, hl, opts, c, chars)
        r6 == highlight_number(index, hl, opts, c, chars)
    IN  IF r1.ok THEN r1
        ELSE IF r2.ok THEN r2
        ELSE IF r3.ok THEN r3
        ELSE IF r4.ok THEN r4
        ELSE IF r5.ok THEN r5
        ELSE IF r6.ok THEN r6
        ELSE Hit(index + 1, Append(hl, "None"))

RECURSIVE highlight_scan(_, _, _, _)
\* the loop of Row::highlight
highlight_scan(index, hl, opts, chars) ==
    IF index >= Len(chars)
    THEN hl
    ELSE LET r == highlight_step(index, hl, opts, chars)
         IN  highlight_scan(r.index, r.hl, opts, chars)

RECURSIVE match_loop(_, _, _, _)
\* the loop of Row::highlight_match; a write past the end of the tags is a
\* panic of the program, which the tag "Panic" in the place of the tags marks
match_loop(r, hl, word, index) ==
    LET search_match == RowFind(r, word, index, "Forward")
        next_index == search_match + Len(Graphemes(word))
    IN  IF search_match = None
        THEN hl
        ELSE IF next_index > Len(hl)
        THEN <<"Panic">>
        ELSE match_loop(r,
                        [i \in 1..Len(hl) |->
                            IF search_match < i /\ i <= next_index
                            THEN "Match" ELSE hl[i]],
                        word, next_index)

\* Option<&str>: Some(s) and None
SomeWord(s) == [some |-> TRUE, s |-> s]

NoWord == [some |-> FALSE, s |-> <<>>]

\* Row::highlight_match
highlight_match(r, hl, word) ==
    IF ~word.some \/ word.s = <<>> THEN hl ELSE match_loop(r, hl, word.s, 0)

\* Row::highlight
RowHighlight(r, opts, word) ==
    [r EXCEPT !.highlighting =
        highlight_match(r, highlight_scan(0, <<>>, opts, r.string), word)]

(***************************************************************************)
(* Document.  A document value is [rows, dirty]; file_type is the name of  *)
(* its FileType.  A Position is [x, y].                                    *)
(***************************************************************************)
\* rows.insert(i, r): r becomes the row of the 0-based index i
InsertAt(rs, i, r) == SubSeq(rs, 1, i) \o <<r>> \o SubSeq(rs, i + 1, Len(rs))

\* rows.remove(i): without the row of the 0-based index i
RemoveAt(rs, i) == SubSeq(rs, 1, i) \o SubSeq(rs, i + 2, Len(rs))

\* Row::highlight with the continuation flag: inside a comment that is
\* still open the whole line is a comment and the comment stays open (no
\* closing sequence is configured); line comments open none
highlight_continued(r, opts, word, start_with_comment) ==
    IF start_with_comment
    THEN [row |-> [r EXCEPT !.highlighting = Rep("Comment", Len(r.string))],
          flag |-> TRUE]
    ELSE [row |-> RowHighlight(r, opts, word), flag |-> FALSE]

RECURSIVE DocHighlightLoopAllContinued(_, _, _, _, _, _)
\* the loop over the rows with the flag set for every row after the first
DocHighlightLoopAllContinued(rs, opts, word, start_with_comment, done, calls) ==
    IF rs = <<>>
    THEN [rows |-> done, calls |-> calls,
          flags |-> [i \in 1..Len(calls) |-> calls[i].ret]]
    ELSE LET h == highlight_continued(Head(rs), opts, word, start_with_comment)
         IN  DocHighlightLoopAllContinued(
                 Tail(rs), opts, word, TRUE, Append(done, h.row),
                 Append(calls, [y |-> Len(done),
                                start_with_comment |-> start_with_comment,
                                ret |-> h.flag]))

RECURSIVE DocHighlightLoop(_, _, _, _, _, _)
\* the loop over the rows of Document::open, Document::save and
\* Document::highlight: the rows after it, its calls of Row::highlight (the
\* index y of the row, the flag passed and the flag returned) and the flags
\* returned
DocHighlightLoop(rs, opts, word, start_with_comment, done, calls) ==
    IF rs = <<>>
    THEN [rows |-> done, calls |-> calls,
          flags |-> [i \in 1..Len(calls) |-> calls[i].ret]]
    ELSE LET h == highlight_continued(Head(rs), opts, word, start_with_comment)
         IN  DocHighlightLoop(
                 Tail(rs), opts, word, h.flag, Append(done, h.row),
                 Append(calls, [y |-> Len(done),
                                start_with_comment |-> start_with_comment,
                                ret |-> h.flag]))

\* Document::highlight
DocHighlight(rs, ftype, word) ==
    DocHighlightLoop(rs, highlighting_options(ftype), word, FALSE, <<>>, <<>>)

\* Document::insert_newline
insert_newline(rs, ftype, at) ==
    IF at.y > Len(rs)
    THEN rs
    ELSE IF at.y = Len(rs)
    THEN Append(rs, RowDefault)
    ELSE LET opts == highlighting_options(ftype)
             current_row ==
                 highlight_continued(RowSplitSelf(rs[at.y + 1], at.x),
                                     opts, NoWord, FALSE).row
             new_row ==
                 highlight_continued(RowSplitReturned(rs[at.y + 1], at.x),
                                     opts, NoWord, FALSE).row
         IN  InsertAt([rs EXCEPT ![at.y + 1] = current_row], at.y + 1, new_row)

\* Document::insert
DocInsert(doc, ftype, at, c) ==
    IF at.y > Len(doc.rows)
    THEN doc
    ELSE IF c = "\n"
    THEN [rows |-> insert_newline(doc.rows, ftype, at), dirty |-> TRUE]
    ELSE LET opts == highlighting_options(ftype)
         IN  IF at.y < Len(doc.rows)
             THEN [rows |-> [doc.rows EXCEPT ![at.y + 1] =
                                highlight_continued(RowInsert(@, at.x, c),
                                                    opts, NoWord, FALSE).row],
                   dirty |-> TRUE]
             ELSE [rows |-> Append(doc.rows,
                                   highlight_continued(
                                       RowInsert(RowDefault, 0, c),
                                       opts, NoWord, FALSE).row),
                   dirty |-> TRUE]

\* Document::delete
DocDelete(doc, ftype, at) ==
    LET len == Len(doc.rows)
        opts == highlighting_options(ftype)
    IN  IF at.y >= len
        THEN doc
        ELSE IF at.x = RowLen(doc.rows[at.y + 1]) /\ at.y + 1 < len
        THEN LET next_row == doc.rows[at.y + 2]
                 removed == RemoveAt(doc.rows, at.y + 1)
             IN  [rows |-> [removed EXCEPT ![at.y + 1] =
                              highlight_continued(RowAppend(@, next_row),
                                                  opts, NoWord, FALSE).row],
                  dirty |-> TRUE]
        ELSE [rows |-> [doc.rows EXCEPT ![at.y + 1] =
                          highlight_continued(RowDelete(@, at.x),
                                              opts, NoWord, FALSE).row],
              dirty |-> TRUE]

RECURSIVE find_loop(_, _, _, _, _, _)
\* the loop of Document::find: n turns are left, position is the place of
\* the next row search, examined the indices of the rows searched so far
find_loop(rs, query, direction, n, position, examined) ==
    IF n = 0
    THEN [ret |-> NonePos, examined |-> examined]
    ELSE IF position.y >= Len(rs)
    THEN [ret |-> NonePos, examined |-> examined]
    ELSE LET x == RowFind(rs[position.y + 1], query, position.x, direction)
             seen == Append(examined, position.y)
             y == IF direction = "Forward" THEN position.y + 1
                  ELSE IF position.y > 0 THEN position.y - 1 ELSE 0
         IN  IF x # None
             THEN [ret |-> [x |-> x, y |-> position.y], examined |-> seen]
             ELSE IF direction = "Forward"
             THEN find_loop(rs, query, direction, n - 1,
                            [x |-> 0, y |-> y], seen)
             ELSE find_loop(rs, query, direction, n - 1,
                            [x |-> RowLen(rs[y + 1]), y |-> y], seen)

\* Document::find with the backward walk one row short
DocFindShortWalk(rs, query, at, direction) ==
    IF at.y >= Len(rs)
    THEN [ret |-> NonePos, examined |-> <<>>]
    ELSE LET start == IF direction = "Forward" THEN at.y ELSE 0
             end == IF direction = "Forward" THEN Len(rs) ELSE at.y
         IN  find_loop(rs, query, direction, end - start, at, <<>>)

\* Document::find: the result, and the indices of the rows it searched
DocFind(rs, query, at, direction) ==
    IF at.y >= Len(rs)
    THEN [ret |-> NonePos, examined |-> <<>>]
    ELSE LET start == IF direction = "Forward" THEN at.y ELSE 0
             end == IF direction = "Forward" THEN Len(rs) ELSE at.y + 1
         IN  find_loop(rs, query, direction, end - start, at, <<>>)

(***************************************************************************)
(* The row-level state machine: a row built from a string, and a second    *)
(* row (the one Row::split returned, or the one to append), under the      *)
(* public operations of Row.  rlog remembers the last operation, its       *)
(* arguments, the row before it, its result, and the operation before it.  *)
(***************************************************************************)
\* the scalar values the row-level actions type
RowChars == {"a", "M"}

\* the texts of at most n scalar values over the characters C
RECURSIVE Texts(_, _)
Texts(C, n) ==
    IF n = 0 THEN {<<>>}
    ELSE Texts(C, n - 1) \cup {Append(t, c) : t \in Texts(C, n - 1), c \in C}

NoSearch ==
    [active |-> FALSE, query |-> <<>>, position |-> [x |-> 0, y |-> 0],
     found |-> <<>>, examined |-> 0, done |-> FALSE]

NoDLog ==
    [op |-> "none", at |-> [x |-> 0, y |-> 0], c |-> "", query |-> <<>>,
     dir |-> "Forward", pre |-> <<>>, predirty |-> FALSE,
     ret |-> NonePos, examined |-> <<>>]

Directions == {"Forward", "Backward"}

\* no file: a document that was not opened from one
NoFile == [name |-> "", contents |-> <<>>]

\* no failure of the file system
NoFault == [at |-> "none", y |-> 0]

\* no call yet: op is the call, r the row, text, a, b, word and opts its
\* arguments, n, n2, s and flag its results, panic and underflow how it went,
\* calls its calls of Row::highlight, pre and predirty the rows and the dirty
\* flag before it, fault the failure of the file system it met
NoOut ==
    [op |-> "none", r |-> RowDefault, text |-> <<>>, a |-> 0, b |-> 0,
     word |-> NoWord, opts |-> DefaultOptions, n |-> 0, n2 |-> 0, s |-> <<>>,
     flag |-> FALSE, panic |-> FALSE, underflow |-> FALSE,
     calls |-> <<>>, pre |-> <<>>, predirty |-> FALSE, fault |-> NoFault]

NoPrev == [op |-> "none", at |-> 0, c |-> "", pre |-> RowDefault]

NoLog ==
    [op |-> "none", at |-> 0, c |-> "", query |-> <<>>, dir |-> "Forward",
     pre |-> RowDefault, ret |-> None, prev |-> NoPrev]

\* what the next operation remembers of the one rlog holds: an insertion or
\* a split, with its arguments and the row before it
Prev(l) ==
    IF l.op \in {"insert", "split"}
    THEN [op |-> l.op, at |-> l.at, c |-> l.c, pre |-> l.pre]
    ELSE NoPrev

InitRow ==
    /\ row \in {RowFrom(t) : t \in Texts(RowChars, MaxLen - 1)}
    /\ spare \in {RowFrom(t) : t \in Texts(RowChars, 1)}
    /\ rlog = NoLog
    /\ rows = <<>>
    /\ dirty = FALSE
    /\ file_type = "No filetype"
    /\ dlog = NoDLog
    /\ search = NoSearch
    /\ file = NoFile
    /\ out = NoOut

RInsert(at, c) ==
    /\ Len(row.string) < MaxLen
    /\ row' = RowInsert(row, at, c)
    /\ rlog' = [NoLog EXCEPT !.op = "insert", !.at = at, !.c = c,
                             !.pre = row, !.prev = Prev(rlog)]
    /\ UNCHANGED <<spare, docVars, ioVars>>

RDelete(at) ==
    /\ row' = RowDelete(row, at)
    /\ rlog' = [NoLog EXCEPT !.op = "delete", !.at = at,
                             !.pre = row, !.prev = Prev(rlog)]
    /\ UNCHANGED <<spare, docVars, ioVars>>

RSplit(at) ==
    /\ row' = RowSplitSelf(row, at)
    /\ spare' = RowSplitReturned(row, at)
    /\ rlog' = [NoLog EXCEPT !.op = "split", !.at = at,
                             !.pre = row, !.prev = Prev(rlog)]
    /\ UNCHANGED <<docVars, ioVars>>

RAppend ==
    /\ Len(row.string) + Len(spare.string) <= MaxLen
    /\ row' = RowAppend(row, spare)
    /\ rlog' = [NoLog EXCEPT !.op = "append",
                             !.pre = row, !.prev = Prev(rlog)]
    /\ UNCHANGED <<spare, docVars, ioVars>>

RHighlight ==
    /\ row' = RowHighlight(row, DefaultOptions, NoWord)
    /\ rlog' = [NoLog EXCEPT !.op = "highlight",
                             !.pre = row, !.prev = Prev(rlog)]
    /\ UNCHANGED <<spare, docVars, ioVars>>

RFind(query, at, direction) ==
    /\ rlog' = [NoLog EXCEPT !.op = "find", !.at = at, !.query = query,
                             !.dir = direction, !.pre = row,
                             !.ret = RowFind(row, query, at, direction)]
    /\ UNCHANGED <<row, spare, docVars, ioVars>>

NextRow ==
    \/ \E at \in 0..MaxLen, c \in RowChars : RInsert(at, c)
    \/ \E at \in 0..MaxLen : RDelete(at)
    \/ \E at \in 0..MaxLen : RSplit(at)
    \/ RAppend
    \/ RHighlight
    \/ \E q \in Texts(RowChars, 1), at \in 0..(MaxLen + 1), d \in Directions :
          RFind(q, at, d)

SpecRow == InitRow /\ [][NextRow]_vars

(***************************************************************************)
(* The document-level state machine: a document, empty or opened from a    *)
(* file, under Document::insert and Document::delete.  A call is made when *)
(* no result is pending; dlog holds the call, the document before it and   *)
(* its result until the result is taken.                                   *)
(***************************************************************************)
\* the scalar values the document-level actions type
DocChars == {"a", "M"}

\* the positions the edits are called with
Positions == [x : 0..MaxDocLen, y : 0..(MaxRows + 1)]

\* the lines of the files the document is opened from
Contents ==
    {<<>>, <<<<"a">>>>, <<<<"a">>, <<"b">>>>, <<<<"a", "M">>, <<"M", "a">>>>}

\* the loop over the lines of Document::open
OpenLoop(lines, ftype) ==
    DocHighlightLoop([i \in 1..Len(lines) |-> RowFrom(lines[i])],
                     highlighting_options(ftype), NoWord, FALSE, <<>>, <<>>)

\* the rows of Document::open, for the lines of the file
OpenRows(lines, ftype) == OpenLoop(lines, ftype).rows

Init ==
    /\ file_type \in {"Rust", "No filetype"}
    /\ rows \in {OpenRows(lines, file_type) : lines \in Contents}
    /\ dirty = FALSE
    /\ dlog = NoDLog
    /\ search = NoSearch
    /\ file = NoFile
    /\ out = NoOut
    /\ row = RowDefault
    /\ spare = RowDefault
    /\ rlog = NoLog

\* the document stays within the bounds of the model
WithinBounds(rs) ==
    /\ Len(rs) <= MaxRows
    /\ Len(Flatten([i \in 1..Len(rs) |-> rs[i].string])) <= MaxDocLen

\* no result is pending
Idle == dlog.op = "none" /\ ~search.active

\* the result is taken
Taken ==
    /\ ~Idle
    /\ dlog' = NoDLog
    /\ search' = NoSearch
    /\ UNCHANGED <<rows, dirty, file_type, rowVars, ioVars>>

Insert(at, c) ==
    /\ Idle
    /\ \E doc \in {DocInsert([rows |-> rows, dirty |-> dirty], file_type, at, c)} :
        /\ WithinBounds(doc.rows)
        /\ rows' = doc.rows
        /\ dirty' = doc.dirty
        /\ dlog' = [NoDLog EXCEPT !.op = "insert", !.at = at, !.c = c,
                                  !.pre = rows, !.predirty = dirty]
        /\ UNCHANGED <<file_type, search, rowVars, ioVars>>

Delete(at) ==
    /\ Idle
    /\ \E doc \in {DocDelete([rows |-> rows, dirty |-> dirty], file_type, at)} :
        /\ WithinBounds(doc.rows)
        /\ rows' = doc.rows
        /\ dirty' = doc.dirty
        /\ dlog' = [NoDLog EXCEPT !.op = "delete", !.at = at,
                                  !.pre = rows, !.predirty = dirty]
        /\ UNCHANGED <<file_type, search, rowVars, ioVars>>

Next ==
    \/ \E at \in Positions, c \in DocChars \cup {"\n"} : Insert(at, c)
    \/ \E at \in Positions : Delete(at)
    \/ Taken

Spec == Init /\ [][Next]_vars

(***************************************************************************)
(* The search state machine: a document that was opened from a file and    *)
(* then edited at most once, under Document::find, Row::find on one of its *)
(* rows, and a repeated forward search.  A call is made when no result is  *)
(* pending; dlog holds the call and its result until it is taken.          *)
(***************************************************************************)
\* the lines of the files the searched documents are opened from
FindContents ==
    {<<>>,
     <<<<"a">>>>,
     <<<<"a", "a", "a">>>>,
     <<<<"a", "M">>, <<"M", "a">>>>,
     <<<<"a", "a">>, <<>>, <<"a", "M", "a">>>>,
     <<<<"M">>, <<"a">>, <<"a", "a">>>>}

\* the queries of the searches
Queries == Texts(DocChars, 1) \cup {<<"a", "a">>, <<"a", "M">>}

\* the documents searched: as opened, and after one character was typed
FindDocs ==
    LET opened == {OpenRows(lines, "Rust") : lines \in FindContents}
    IN  opened \cup
        {DocInsert([rows |-> rs, dirty |-> FALSE], "Rust",
                   [x |-> x, y |-> 0], "M").rows :
            rs \in opened, x \in 0..1}

\* the positions the searches of the document are called with
FindPositions == [x : 0..MaxDocLen, y : 0..Len(rows)]

InitFind ==
    /\ file_type = "Rust"
    /\ rows \in FindDocs
    /\ dirty \in BOOLEAN
    /\ dlog = NoDLog
    /\ search = NoSearch
    /\ file = NoFile
    /\ out = NoOut
    /\ row = RowDefault
    /\ spare = RowDefault
    /\ rlog = NoLog

Find(query, at, direction) ==
    /\ Idle
    /\ \E r \in {DocFind(rows, query, at, direction)} :
        /\ dlog' = [NoDLog EXCEPT !.op = "find", !.at = at, !.query = query,
                                  !.dir = direction, !.pre = rows,
                                  !.predirty = dirty, !.ret = r.ret,
                                  !.examined = r.examined]
    /\ UNCHANGED <<rows, dirty, file_type, search, rowVars, ioVars>>

\* Row::find on the row Document::row(at.y) gives
FindInRow(query, at, direction) ==
    /\ Idle
    /\ at.y < Len(rows)
    /\ dlog' = [NoDLog EXCEPT !.op = "rowfind", !.at = at, !.query = query,
                              !.dir = direction, !.pre = rows,
                              !.predirty = dirty,
                              !.ret = [x |-> RowFind(rows[at.y + 1], query,
                                                     at.x, direction),
                                       y |-> at.y]]
    /\ UNCHANGED <<rows, dirty, file_type, search, rowVars, ioVars>>

\* a repeated forward search starts at a position
SearchStart(query, at) ==
    /\ Idle
    /\ query # <<>>
    /\ search' = [NoSearch EXCEPT !.active = TRUE, !.query = query,
                                  !.position = at]
    /\ UNCHANGED <<rows, dirty, file_type, dlog, rowVars, ioVars>>

\* its next call of Document::find; after a match the search restarts just
\* past the matched span
SearchNext ==
    /\ search.active
    /\ ~search.done
    /\ Len(search.found) < MaxCalls
    /\ \E r \in {DocFind(rows, search.query, search.position, "Forward")} :
           search' =
             IF r.ret = NonePos
             THEN [search EXCEPT !.done = TRUE,
                                 !.examined = Len(r.examined)]
             ELSE [search EXCEPT
                     !.found = Append(@, r.ret),
                     !.examined = Len(r.examined),
                     !.position = [x |-> r.ret.x + Len(Graphemes(search.query)),
                                   y |-> r.ret.y]]
    /\ UNCHANGED <<rows, dirty, file_type, dlog, rowVars, ioVars>>

NextFind ==
    \/ \E q \in Queries, at \in FindPositions, d \in Directions : Find(q, at, d)
    \/ \E q \in Queries, at \in FindPositions, d \in Directions :
          FindInRow(q, at, d)
    \/ \E q \in Queries, at \in FindPositions : SearchStart(q, at)
    \/ SearchNext
    \/ Taken

SpecFind == InitFind /\ [][NextFind]_vars

(***************************************************************************)
(* Claims about the row.                                                   *)
(***************************************************************************)
\* the text begins with the query
BeginsWith(text, query) == OccursAt(text, query, 0)

\* the text of the graphemes [from, to) of a text
GraphemeRange(text, from, to) ==
    LET g == Graphemes(text)
    IN  Flatten(SubSeq(g, from + 1, IF to < Len(g) THEN to ELSE Len(g)))

\* C1: after any sequence of Row::insert, Row::delete, Row::split and
\* Row::append on rows built from a string, the stored length of the row is
\* the number of grapheme clusters of its text.
C1_LenIsGraphemeCount ==
    /\ row.len_full_width = Len(Graphemes(row.string))
    /\ spare.len_full_width = Len(Graphemes(spare.string))

\* C2: Row::insert(p, c) with 0 <= p <= len followed by Row::delete(p) leaves
\* the row with its original text and its original length.
C2_InsertDeleteRestores ==
    (/\ rlog.op = "delete"
     /\ rlog.prev.op = "insert"
     /\ rlog.prev.at = rlog.at
     /\ rlog.at <= rlog.prev.pre.len_full_width)
    => /\ row.string = rlog.prev.pre.string
       /\ row.len_full_width = rlog.prev.pre.len_full_width

\* C3: Row::split(at) with 0 <= at <= len leaves self with the graphemes
\* before at and returns the graphemes from at on, each half with its correct
\* length and no tags; appending the returned row back onto self gives the
\* original text and the original length.
C3_SplitAppendRestores ==
    /\ (rlog.op = "split" /\ rlog.at <= rlog.pre.len_full_width)
       => /\ row.string = GraphemeRange(rlog.pre.string, 0, rlog.at)
          /\ spare.string = GraphemeRange(rlog.pre.string, rlog.at,
                                          Len(rlog.pre.string))
          /\ row.len_full_width = Len(Graphemes(row.string))
          /\ spare.len_full_width = Len(Graphemes(spare.string))
          /\ row.highlighting = <<>>
          /\ spare.highlighting = <<>>
    /\ (/\ rlog.op = "append"
        /\ rlog.prev.op = "split"
        /\ rlog.prev.at <= rlog.prev.pre.len_full_width)
       => /\ row.string = rlog.prev.pre.string
          /\ row.len_full_width = rlog.prev.pre.len_full_width

\* the grapheme indices of text at which an occurrence of query starts that
\* lies within the graphemes [from, to)
Occurrences(text, query, from, to) ==
    {i \in from..(to - 1) :
        /\ i < Len(Graphemes(text))
        /\ BeginsWith(GraphemeRange(text, i, to), query)}

\* what the claim says Row::find returns
FindExpected(text, len, query, at, direction) ==
    LET occ == IF direction = "Forward"
               THEN Occurrences(text, query, at, len)
               ELSE Occurrences(text, query, 0, at)
    IN  IF occ = {} THEN None
        ELSE IF direction = "Forward" THEN MinOf(occ) ELSE MaxOf(occ)

\* C7: Row::find with a non-empty query and at <= len returns the grapheme
\* index of the first occurrence within the graphemes [at, end) (forward) or
\* of the last occurrence within [0, at) (backward), and no result exactly
\* when there is no such occurrence.
C7_RowFindFirstOrLast ==
    (rlog.op = "find" /\ rlog.query # <<>> /\ rlog.at <= rlog.pre.len_full_width)
    => rlog.ret = FindExpected(rlog.pre.string, rlog.pre.len_full_width,
                               rlog.query, rlog.at, rlog.dir)

(***************************************************************************)
(* Claims about the edits of the document.  In a state where dlog holds a  *)
(* call, dlog.pre and dlog.predirty are the document before the call and   *)
(* rows and dirty the document after it.                                   *)
(***************************************************************************)
\* the texts of the rows, in order
RowTexts(rs) == [i \in 1..Len(rs) |-> rs[i].string]

\* the stored lengths of the rows, in order
RowLens(rs) == [i \in 1..Len(rs) |-> rs[i].len_full_width]

\* C4: Document::delete at the end of line of row y, with a row y + 1, puts
\* the concatenation of both rows (of length the sum of both lengths) in the
\* place of row y and removes row y + 1; at the end of line of the last row
\* it leaves every row as it is; with y >= row count it leaves the document
\* as it is.  A position x past the end of the row counts as the end of line
\* (Scenario C: x = 3 on the row "a").
C4_DeleteMergesAtEndOfLine ==
    dlog.op = "delete" =>
        LET pre == dlog.pre
            x == dlog.at.x
            y == dlog.at.y
            count == Len(pre)
        IN  /\ y >= count => (rows = pre /\ dirty = dlog.predirty)
            /\ (y + 1 < count /\ x >= RowLen(pre[y + 1]))
               => /\ Len(rows) = count - 1
                  /\ rows[y + 1].string = pre[y + 1].string \o pre[y + 2].string
                  /\ rows[y + 1].len_full_width =
                        RowLen(pre[y + 1]) + RowLen(pre[y + 2])
                  /\ \A i \in 1..y : rows[i] = pre[i]
                  /\ \A i \in (y + 3)..count : rows[i - 1] = pre[i]
            /\ (y + 1 = count /\ x >= RowLen(pre[y + 1]))
               => /\ RowTexts(rows) = RowTexts(pre)
                  /\ RowLens(rows) = RowLens(pre)

\* C5: Document::insert of a character c that is not the newline: with
\* y < row count only row y changes, c is put before the grapheme x of it (at
\* its end when x is at or past the end) and the row count stays; with
\* y = row count one row of text c is appended; with y > row count the rows
\* and the dirty flag stay.  With y <= row count the dirty flag is true.
C5_InsertCharacter ==
    (dlog.op = "insert" /\ dlog.c # "\n") =>
        LET pre == dlog.pre
            x == dlog.at.x
            y == dlog.at.y
            count == Len(pre)
        IN  /\ y < count
               => /\ Len(rows) = count
                  /\ \A i \in 1..count : i # y + 1 => rows[i] = pre[i]
                  /\ rows[y + 1].string =
                        GraphemeRange(pre[y + 1].string, 0, x) \o <<dlog.c>>
                        \o GraphemeRange(pre[y + 1].string, x,
                                         Len(pre[y + 1].string))
                  /\ dirty
            /\ y = count
               => /\ Len(rows) = count + 1
                  /\ \A i \in 1..count : rows[i] = pre[i]
                  /\ rows[count + 1].string = <<dlog.c>>
                  /\ dirty
            /\ y > count => (rows = pre /\ dirty = dlog.predirty)

WalkOrder(rs, at, direction) ==
    IF direction = "Forward"
    THEN [k \in 1..(Len(rs) - at.y) |->
            [x |-> IF k = 1 THEN at.x ELSE 0, y |-> at.y + k - 1]]
    ELSE [k \in 1..(at.y + 1) |->
            [x |-> IF k = 1 THEN at.x ELSE RowLen(rs[at.y - k + 2]),
             y |-> at.y - k + 1]]

\* the text holds the query somewhere
Contains(text, query) == \E i \in 0..Len(text) : OccursAt(text, query, i)

\* C8: Document::find searches row at.y from at.x and then walks the rows
\* forward (from 0) or backward (from their ends) to the end of the document;
\* it returns the first match met in that order, and no result when no row of
\* the walk has the query, having searched every row of the walk exactly once.
C8_DocumentFindWalk ==
    /\ (dlog.op = "find" /\ dlog.at.y >= Len(rows))
       => (dlog.ret = NonePos /\ dlog.examined = <<>>)
    /\ (dlog.op = "find" /\ dlog.at.y < Len(rows)) =>
        LET walk == WalkOrder(rows, dlog.at, dlog.dir)
            at(k) == RowFind(rows[walk[k].y + 1], dlog.query, walk[k].x, dlog.dir)
            hits == {k \in 1..Len(walk) : at(k) # None}
            n == IF hits = {} THEN Len(walk) ELSE MinOf(hits)
        IN  /\ dlog.examined = [k \in 1..n |-> walk[k].y]
            /\ hits = {} => dlog.ret = NonePos
            /\ hits # {} => dlog.ret = [x |-> at(n), y |-> walk[n].y]
            /\ (\A k \in 1..Len(walk) :
                    ~Contains(rows[walk[k].y + 1].string, dlog.query))
               => dlog.ret = NonePos

\* a backward search found the query in a row before the one it started in
C8_Witness ==
    /\ dlog.op = "find"
    /\ dlog.dir = "Backward"
    /\ dlog.ret # NonePos
    /\ dlog.ret.y < dlog.at.y
    /\ dlog.ret.x > 0

\* position p is before position q in the document
Before(p, q) == p.y < q.y \/ (p.y = q.y /\ p.x < q.x)

\* the number of grapheme clusters of the document
RECURSIVE TotalGraphemes(_)
TotalGraphemes(rs) ==
    IF rs = <<>> THEN 0
    ELSE Len(Graphemes(Head(rs).string)) + TotalGraphemes(Tail(rs))

\* C9: the matches of a repeated forward search, each call restarting just
\* past the match before, strictly increase in document order; there are at
\* most as many of them as the document has graphemes, so the search ends
\* with no result after finitely many calls; each call searches at most
\* row count rows.
C9_RepeatedFindAdvances ==
    /\ \A i, j \in 1..Len(search.found) :
          i < j => Before(search.found[i], search.found[j])
    /\ Len(search.found) <= TotalGraphemes(rows)
    /\ search.examined <= Len(rows)

\* a repeated search ended after matches in two rows
C9_Witness ==
    /\ search.done
    /\ Len(search.found) >= 3
    /\ search.found[1].y < search.found[Len(search.found)].y

\* C10: Row::find and Document::find with the empty query return no result,
\* for every position and both directions, and leave the document as it is.
C10_EmptyQueryFindsNothing ==
    (dlog.op \in {"find", "rowfind"} /\ dlog.query = <<>>) =>
        /\ dlog.op = "find" => dlog.ret = NonePos
        /\ dlog.op = "rowfind" => dlog.ret.x = None
        /\ rows = dlog.pre
        /\ dirty = dlog.predirty

\* the empty query was searched backward from the end of a row with text
C10_Witness ==
    /\ dlog.op = "rowfind"
    /\ dlog.query = <<>>
    /\ dlog.dir = "Backward"
    /\ dlog.at.x > 0
    /\ dlog.at.x = RowLen(rows[dlog.at.y + 1])

(***************************************************************************)
(* Files.  The contents of a file are bytes; a byte is written as the      *)
(* scalar value it encodes when that is ASCII and as "0xCC", "0x81" for    *)
(* the two bytes of U+0301.                                                *)
(***************************************************************************)
\* longest file (in scalar values) the file machine starts from
MaxFileLen == 4

\* the UTF-8 bytes of a scalar value (String::as_bytes)
Utf8Char(c) == IF c = "M" THEN <<"0xCC", "0x81">> ELSE <<c>>

\* Row::as_bytes
as_bytes(r) == Flatten([i \in 1..Len(r.string) |-> Utf8Char(r.string[i])])

RECURSIVE Utf8Decode(_)
\* the text fs::read_to_string gives for the bytes of a file
Utf8Decode(bytes) ==
    IF bytes = <<>> THEN <<>>
    ELSE IF Head(bytes) = "0xCC" /\ Len(bytes) >= 2 /\ bytes[2] = "0x81"
    THEN <<"M">> \o Utf8Decode(Tail(Tail(bytes)))
    ELSE <<Head(bytes)>> \o Utf8Decode(Tail(bytes))

\* the line without the "\r" at its end, when it has one
StripCR(line) ==
    IF line # <<>> /\ line[Len(line)] = "\r"
    THEN SubSeq(line, 1, Len(line) - 1) ELSE line

RECURSIVE lines_strip_loop(_, _, _)
\* str::lines: a line ends at "\n" or at "\r\n", neither of which is part of
\* it; what follows the last "\n" is the last line, as it is
lines_strip_loop(text, cur, acc) ==
    IF text = <<>>
    THEN IF cur = <<>> THEN acc ELSE Append(acc, cur)
    ELSE IF Head(text) = "\n"
    THEN lines_strip_loop(Tail(text), <<>>, Append(acc, StripCR(cur)))
    ELSE lines_strip_loop(Tail(text), Append(cur, Head(text)), acc)

\* str::lines
lines(text) == lines_strip_loop(text, <<>>, <<>>)

\* str::ends_with
ends_with(s, suffix) ==
    /\ Len(s) >= Len(suffix)
    /\ SubSeq(s, Len(s) - Len(suffix) + 1, Len(s)) = suffix

\* FileType::from: the name of the file type of a file name
FileTypeFrom(file_name) ==
    IF ends_with(file_name, <<".", "r", "s">>) THEN "Rust" ELSE "No filetype"

\* Document::open of the file f: the rows of the document
DocOpen(f) ==
    OpenRows(lines(Utf8Decode(f.contents)), FileTypeFrom(f.name))

\* Document::save with every row's "\n" left out
DocSaveNoNewline(rs) ==
    Flatten([i \in 1..Len(rs) |-> as_bytes(rs[i])])

\* Document::save: the bytes written to the file
DocSave(rs) ==
    Flatten([i \in 1..Len(rs) |-> as_bytes(rs[i]) \o <<"\n">>])

(***************************************************************************)
(* The file state machine: a document that was opened from a file, under   *)
(* Document::save and Document::open of the same file again.  out holds    *)
(* the last call; out.s is the contents the last Document::open read and   *)
(* out.flag tells that no call came between that open and a save.          *)
(***************************************************************************)
\* the scalar values of the files
FileChars == {"a", "M", "\r", "\n"}

\* the names of the files
FileNames == {<<"a", ".", "r", "s">>, <<"a", ".", "t", "x", "t">>}

\* the bytes of a text
Utf8(text) == Flatten([i \in 1..Len(text) |-> Utf8Char(text[i])])

InitFile ==
    /\ file \in [name : FileNames,
                 contents : {Utf8(t) : t \in Texts(FileChars, MaxFileLen)}]
    /\ rows = DocOpen(file)
    /\ dirty = FALSE
    /\ file_type = FileTypeFrom(file.name)
    /\ out = [NoOut EXCEPT !.op = "open", !.s = file.contents]
    /\ dlog = NoDLog
    /\ search = NoSearch
    /\ row = RowDefault
    /\ spare = RowDefault
    /\ rlog = NoLog

\* Document::save
Save ==
    /\ file' = [file EXCEPT !.contents = DocSave(rows)]
    /\ file_type' = FileTypeFrom(file.name)
    /\ rows' = [i \in 1..Len(rows) |->
                  RowHighlight(rows[i],
                               highlighting_options(FileTypeFrom(file.name)),
                               NoWord)]
    /\ dirty' = FALSE
    /\ out' = [out EXCEPT !.op = "save", !.flag = (out.op = "open")]
    /\ UNCHANGED <<dlog, search, rowVars>>

\* Document::open of the file of the document
Open ==
    /\ rows' = DocOpen(file)
    /\ dirty' = FALSE
    /\ file_type' = FileTypeFrom(file.name)
    /\ out' = [NoOut EXCEPT !.op = "open", !.s = file.contents]
    /\ UNCHANGED <<file, dlog, search, rowVars>>

NextFile ==
    \/ Save
    \/ Open

SpecFile == InitFile /\ [][NextFile]_vars

(***************************************************************************)
(* Claims about the files.                                                 *)
(***************************************************************************)
RECURSIVE SplitLFLoop(_, _, _)
\* the pieces of a text between its "\n", a last piece without "\n" included
SplitLFLoop(text, cur, acc) ==
    IF text = <<>>
    THEN IF cur = <<>> THEN acc ELSE Append(acc, cur)
    ELSE IF Head(text) = "\n"
    THEN SplitLFLoop(Tail(text), <<>>, Append(acc, cur))
    ELSE SplitLFLoop(Tail(text), Append(cur, Head(text)), acc)

\* the LF-delimited lines of the bytes of a file
SplitLF(bytes) == SplitLFLoop(bytes, <<>>, <<>>)

\* the bytes have a "\r" right before a "\n"
HasCRLF(bytes) ==
    \E i \in 1..(Len(bytes) - 1) : bytes[i] = "\r" /\ bytes[i + 1] = "\n"

\* the bytes end with a "\n"
EndsWithLF(bytes) == bytes # <<>> /\ bytes[Len(bytes)] = "\n"

\* C11: for a file without CRLF that ends with a newline, Document::save
\* right after Document::open writes the bytes that were read; the rows of
\* the open are the LF-delimited lines of the file, in order.
C11_OpenSaveRoundTrip ==
    /\ (out.op = "open" /\ ~HasCRLF(out.s) /\ EndsWithLF(out.s))
       => [i \in 1..Len(rows) |-> as_bytes(rows[i])] = SplitLF(out.s)
    /\ (out.op = "save" /\ out.flag /\ ~HasCRLF(out.s) /\ EndsWithLF(out.s))
       => file.contents = out.s

\* a file of two lines, with a combining mark and a lone carriage return,
\* was saved right after it was opened
C11_Witness ==
    /\ out.op = "save"
    /\ out.flag
    /\ ~HasCRLF(out.s)
    /\ EndsWithLF(out.s)
    /\ Len(rows) = 2
    /\ \E i \in 1..Len(out.s) : out.s[i] = "\r"
    /\ \E i \in 1..Len(out.s) : out.s[i] = "0xCC"

\* every line of the file ends in CRLF
AllLinesCRLF(bytes) ==
    /\ EndsWithLF(bytes)
    /\ \A i \in 1..Len(bytes) :
          bytes[i] = "\n" => (i > 1 /\ bytes[i - 1] = "\r")

\* C12: Document::open splits the file at LF only: the rows are the
\* LF-delimited lines, and for a file whose lines end in CRLF every row has
\* the carriage return as its last character.
C12_OpenKeepsCarriageReturn ==
    (out.op = "open" /\ AllLinesCRLF(out.s)) =>
        /\ [i \in 1..Len(rows) |-> as_bytes(rows[i])] = SplitLF(out.s)
        /\ \A i \in 1..Len(rows) :
              /\ rows[i].string # <<>>
              /\ rows[i].string[Len(rows[i].string)] = "\r"

(***************************************************************************)
(* Display.  "ESC" stands for U+001B.  A build is the choice the program   *)
(* is compiled with: whether usize arithmetic is checked (a debug build    *)
(* panics on an underflow, a release build wraps), and the width           *)
(* UnicodeWidthStr::width gives a control character (0 or 1, by the        *)
(* version of the unicode-width crate).                                    *)
(***************************************************************************)
\* stands for 2^64, the modulus of usize arithmetic, which is beyond the
\* integers of the model checker; every length of the model is far below it
UsizeModulus == 2^30

Builds == [overflow_checks : BOOLEAN, control_width : {0, 1}]

\* UnicodeWidthChar::width(c).unwrap_or(d)
CharWidthOr(c, d) ==
    IF c = "W" THEN 2
    ELSE IF c = "M" THEN 0
    ELSE IF c \in {"\t", "\r", "\n", "ESC"} THEN d
    ELSE 1

RECURSIVE StrWidth(_, _)
\* UnicodeWidthStr::width
StrWidth(string, build) ==
    IF string = <<>> THEN 0
    ELSE CharWidthOr(Head(string), build.control_width)
         + StrWidth(Tail(string), build)

\* format!("{}", termion::color::Fg(color::Reset))
FgReset == <<"ESC", "[", "3", "9", "m">>

\* format!("{}", termion::color::Fg(highlighting_type.to_color())), for the
\* tags that highlighting::Type::to_color knows
FgColor(highlighting_type) ==
    <<"ESC", "[", "3", "8", ";", "2", ";">> \o
    (CASE highlighting_type = "Number" ->
            <<"2", "2", "0", ";", "1", "6", "3", ";", "1", "6", "3">>
       [] highlighting_type = "Match" ->
            <<"3", "8", ";", "1", "3", "9", ";", "2", "1", "0">>
       [] highlighting_type = "String" ->
            <<"2", "1", "1", ";", "5", "4", ";", "1", "3", "0">>
       [] highlighting_type = "Character" ->
            <<"1", "0", "8", ";", "1", "1", "3", ";", "1", "9", "6">>
       [] OTHER ->
            <<"2", "5", "5", ";", "2", "5", "5", ";", "2", "5", "5">>)
    \o <<"m">>

RECURSIVE trim_width_loop(_, _, _, _)
\* the first loop of Row::trim_string: end_idx when it ends
trim_width_loop(chars, half_width_area, current_width, end_idx) ==
    IF chars = <<>>
    THEN end_idx
    ELSE LET char_width == CharWidthOr(Head(chars), 1)
         IN  IF current_width <= half_width_area
                /\ half_width_area <= current_width + char_width
             THEN end_idx
             ELSE trim_width_loop(Tail(chars), half_width_area,
                                  current_width + char_width, end_idx + 1)

RECURSIVE trim_result_loop(_, _, _, _, _)
\* the second loop of Row::trim_string: the graphemes g from the (0-based)
\* index on, of which the first n are taken
trim_result_loop(g, hl, index, n, current_highlighting) ==
    IF index >= n \/ index >= Len(g)
    THEN <<>>
    ELSE LET c == g[index + 1][1]
             highlighting_type == IF index < Len(hl) THEN hl[index + 1]
                                  ELSE "None"
             start_highlight ==
                 IF highlighting_type = current_highlighting THEN <<>>
                 ELSE IF highlighting_type = "None" THEN FgReset
                 ELSE FgColor(highlighting_type)
         IN  start_highlight \o <<IF c = "\t" THEN " " ELSE c>>
             \o trim_result_loop(g, hl, index + 1, n, highlighting_type)

\* Row::trim_string
trim_string(r, full_width_offset, half_width_area) ==
    LET string == SkipTake(r.string, full_width_offset, Len(r.string))
        end_idx == trim_width_loop(string, half_width_area, 0, 0)
    IN  IF string = <<>>
        THEN <<>>
        ELSE trim_result_loop(Graphemes(string), r.highlighting, 0, end_idx,
                              "None")
             \o FgReset

\* Row::full2half_width: the width, and whether end - start underflowed and
\* whether the call panicked on it
full2half_width(r, full_width_start, full_width_end, build) ==
    LET end == IF full_width_end < RowLen(r) THEN full_width_end ELSE RowLen(r)
        start == IF full_width_start < full_width_end
                 THEN full_width_start ELSE full_width_end
        underflow == end < start
        count == (end - start) % UsizeModulus
    IN  IF underflow /\ build.overflow_checks
        THEN [panic |-> TRUE, underflow |-> TRUE, width |-> 0]
        ELSE [panic |-> FALSE, underflow |-> underflow,
              width |-> StrWidth(SkipTake(r.string, start, count), build)]

\* Row::half2full_width
half2full_width(r, half_width_end, build) ==
    StrWidth(trim_string(r, 0, half_width_end), build)

(***************************************************************************)
(* The display state machine: a highlighted row under the width            *)
(* conversions and Row::trim_string.  A call is made when no result is     *)
(* pending; out holds the call and its result until the result is taken.   *)
(***************************************************************************)
\* longest row text (in scalar values) of the display machine
MaxViewLen == 3

\* the scalar values of its rows
ViewChars == {"a", "W", "M", "\t", "1"}

\* the grapheme indices the calls are made with
ViewIndices == 0..(MaxViewLen + 2)

\* the display widths the calls are made with
ViewWidths == 0..(2 * MaxViewLen + 1)

InitView ==
    /\ row \in {RowHighlight(RowFrom(t), RustOptions, NoWord) :
                   t \in Texts(ViewChars, MaxViewLen)}
    /\ spare = RowDefault
    /\ rlog = NoLog
    /\ rows = <<>>
    /\ dirty = FALSE
    /\ file_type = "Rust"
    /\ dlog = NoDLog
    /\ search = NoSearch
    /\ file = NoFile
    /\ out = NoOut

\* Row::full2half_width(start, end)
Full2Half(start, end, build) ==
    /\ out.op = "none"
    /\ \E w \in {full2half_width(row, start, end, build)} :
          out' = [NoOut EXCEPT !.op = "full2half", !.r = row, !.a = start,
                               !.b = end, !.n = w.width, !.panic = w.panic,
                               !.underflow = w.underflow]
    /\ UNCHANGED <<rowVars, docVars, file>>

\* Row::half2full_width(Row::full2half_width(0, n)), for n and for n + 1
Half2Full(n, build) ==
    /\ out.op = "none"
    /\ out' = [NoOut EXCEPT
                 !.op = "half2full", !.r = row, !.a = n,
                 !.n = half2full_width(
                          row, full2half_width(row, 0, n, build).width, build),
                 !.n2 = half2full_width(
                          row, full2half_width(row, 0, n + 1, build).width,
                          build)]
    /\ UNCHANGED <<rowVars, docVars, file>>

\* Row::trim_string(offset, budget)
Trim(offset, budget) ==
    /\ out.op = "none"
    /\ out' = [NoOut EXCEPT !.op = "trim", !.r = row, !.a = offset,
                            !.b = budget,
                            !.s = trim_string(row, offset, budget)]
    /\ UNCHANGED <<rowVars, docVars, file>>

\* the result of the call is taken
Returned ==
    /\ out.op # "none"
    /\ out' = NoOut
    /\ UNCHANGED <<rowVars, docVars, file>>

NextView ==
    \/ \E start \in ViewIndices, end \in ViewIndices, build \in Builds :
          Full2Half(start, end, build)
    \/ \E n \in ViewIndices, build \in Builds : Half2Full(n, build)
    \/ \E offset \in ViewIndices, budget \in ViewWidths : Trim(offset, budget)
    \/ Returned

SpecView == InitView /\ [][NextView]_vars

(***************************************************************************)
(* Claims about the display.                                               *)
(***************************************************************************)
\* the display width of a text: 2 for a double-width character, 0 for a
\* combining mark, 1 for every other character
DisplayWidth(text) ==
    StrWidth(text, [overflow_checks |-> FALSE, control_width |-> 1])

\* the smaller of two numbers
Clamp(n, max) == IF n < max THEN n ELSE max

\* C13: Row::full2half_width(start, end) ends without underflow and without
\* failure for every start and end, also past the end of the row and with
\* start > end; the bounds are clamped to the row, and an empty clamped
\* range has the width 0.
C13_Full2HalfNeverUnderflows ==
    out.op = "full2half" =>
        LET len == Len(Graphemes(out.r.string))
            start == Clamp(out.a, len)
            end == Clamp(out.b, len)
        IN  /\ ~out.underflow
            /\ ~out.panic
            /\ start >= end => out.n = 0
            /\ start < end
               => out.n = DisplayWidth(GraphemeRange(out.r.string, start, end))

\* C14: half2full_width(full2half_width(0, n)) is at most n and does not
\* decrease when n grows.
C14_WidthRoundTrip ==
    out.op = "half2full" => (out.n <= out.a /\ out.n <= out.n2)

RECURSIVE StripEscapes(_, _)
\* the text without its colour sequences, each from "ESC" to "m"
StripEscapes(text, inside) ==
    IF text = <<>> THEN <<>>
    ELSE IF inside
    THEN StripEscapes(Tail(text), Head(text) # "m")
    ELSE IF Head(text) = "ESC"
    THEN StripEscapes(Tail(text), TRUE)
    ELSE <<Head(text)>> \o StripEscapes(Tail(text), FALSE)

\* the graphemes g with every tab as one space
TabsAsSpaces(g) ==
    [i \in 1..Len(g) |->
        [k \in 1..Len(g[i]) |-> IF g[i][k] = "\t" THEN " " ELSE g[i][k]]]

\* the longest prefix of the graphemes of the row from offset on whose
\* display width is at most budget
FittingPrefix(text, offset, budget) ==
    LET g == Graphemes(SkipTake(text, offset, Len(text)))
        fits == {k \in 0..Len(g) :
                    DisplayWidth(Flatten(SubSeq(g, 1, k))) <= budget}
    IN  SubSeq(g, 1, MaxOf(fits))

\* C15: Row::trim_string(offset, budget) shows the longest prefix of the
\* graphemes of the row from offset on whose display width is at most
\* budget, every tab as one space.
C15_TrimShowsFittingPrefix ==
    out.op = "trim" =>
        StripEscapes(out.s, FALSE) =
            Flatten(TabsAsSpaces(FittingPrefix(out.r.string, out.a, out.b)))

(***************************************************************************)
(* The highlighting state machine: a row under Row::highlight with a rule  *)
(* set and a search word, and a document under Document::highlight.  out   *)
(* holds the call and the row before it.                                   *)
(***************************************************************************)
\* longest row text (in scalar values) of the highlighting machine, the
\* texts of the scenarios apart
MaxHlLen == 3

\* the scalar values of its rows
HlChars == {"a", "M", "1", ".", " ", "/", "\"", "'", "\\"}

\* let x = 42;
ScenarioAText == <<"l", "e", "t", " ", "x", " ", "=", " ", "4", "2", ";">>

\* "a\"b"
EscapedQuoteText == <<"\"", "a", "\\", "\"", "b", "\"">>

\* a number with two decimal points, and digits directly after a letter
TwoPointsText == <<"1", ".", "2", ".", "3">>

DigitsAfterLetterText == <<"x", "4", "2">>

\* the keyword let, and two longer words it is a part of
LetText == <<"l", "e", "t">>

LetterText == <<"l", "e", "t", "t", "e", "r">>

OutletText == <<"o", "u", "t", "l", "e", "t">>

\* // start of comment
ScenarioBFirst ==
    <<"/", "/", " ", "s", "t", "a", "r", "t", " ", "o", "f", " ",
      "c", "o", "m", "m", "e", "n", "t">>

\* still commented
ScenarioBSecond ==
    <<"s", "t", "i", "l", "l", " ", "c", "o", "m", "m", "e", "n", "t", "e", "d">>

\* the rule set of Scenario A: the primary keyword let, numbers enabled
ScenarioAOptions ==
    [DefaultOptions EXCEPT !.numbers = TRUE,
                           !.primary_keywords = <<<<"l", "e", "t">>>>]

\* the rule set of Scenario B: comments enabled
ScenarioBOptions == [DefaultOptions EXCEPT !.comments = TRUE]

\* a rule set with every rule enabled and keywords of the model's characters
KeywordOptions ==
    [RustOptions EXCEPT !.primary_keywords = <<<<"a", "a">>>>,
                        !.secondary_keywords = <<<<"a">>, <<"1">>>>]

\* rule sets with the keywords let and letter, in either order
ShortFirstOptions ==
    [DefaultOptions EXCEPT !.primary_keywords = <<LetText, LetterText>>]

LongFirstOptions ==
    [DefaultOptions EXCEPT !.secondary_keywords = <<LetterText, LetText>>]

\* the rule sets Row::highlight is called with
HlOptions ==
    {DefaultOptions, RustOptions, ScenarioAOptions, ScenarioBOptions,
     KeywordOptions, ShortFirstOptions, LongFirstOptions}

\* the search words Row::highlight is called with
HlWords == {NoWord, SomeWord(<<>>), SomeWord(<<"a">>), SomeWord(<<"a", "a">>)}

\* the lines of the documents Document::highlight is called on
HlContents ==
    {<<ScenarioBFirst, ScenarioBSecond>>,
     <<<<"/", "/", "a">>, <<"a", " ", "1">>>>,
     <<<<"a", "/", "/">>, <<"/", "/">>, <<"\"", "a">>>>}

\* the rows Row::highlight is called on: built from a string, and
\* highlighted before or not
HlRows ==
    LET fresh == {RowFrom(t) :
                     t \in Texts(HlChars, MaxHlLen)
                           \cup {ScenarioAText, EscapedQuoteText, ScenarioBFirst,
                                 TwoPointsText, DigitsAfterLetterText,
                                 LetterText, OutletText}}
    IN  fresh \cup {RowHighlight(r, RustOptions, NoWord) : r \in fresh}

InitHl ==
    /\ \/ /\ row \in HlRows
          /\ file_type = "Rust"
          /\ rows = <<>>
       \/ /\ row = RowDefault
          /\ file_type \in {"Rust", "No filetype"}
          /\ rows \in {OpenRows(ls, file_type) : ls \in HlContents}
    /\ spare = RowDefault
    /\ rlog = NoLog
    /\ dirty = FALSE
    /\ dlog = NoDLog
    /\ search = NoSearch
    /\ file = NoFile
    /\ out = NoOut

\* Row::highlight(opts, word)
Highlight(opts, word) ==
    /\ out.op = "none"
    /\ row' = RowHighlight(row, opts, word)
    /\ out' = [NoOut EXCEPT !.op = "highlight", !.r = row, !.opts = opts,
                            !.word = word]
    /\ UNCHANGED <<spare, rlog, docVars, file>>

\* Document::highlight(word)
HighlightDocument(word) ==
    /\ out.op = "none"
    /\ \E h \in {DocHighlight(rows, file_type, word)} :
          /\ rows' = h.rows
          /\ out' = [NoOut EXCEPT !.op = "dochighlight", !.word = word,
                                  !.opts = highlighting_options(file_type),
                                  !.s = h.flags, !.calls = h.calls,
                                  !.pre = rows]
    /\ UNCHANGED <<rowVars, dirty, file_type, dlog, search, file>>

NextHl ==
    \/ \E opts \in HlOptions, word \in HlWords : Highlight(opts, word)
    \/ \E word \in HlWords : HighlightDocument(word)

SpecHl == InitHl /\ [][NextHl]_vars

(***************************************************************************)
(* Claims about the highlighting.  Positions are 0-based indices of the    *)
(* scalar values of the row text; the tag of position p is                 *)
(* highlighting[p + 1].                                                    *)
(***************************************************************************)
\* the call had no search word, or an empty one
NoSearchWord(word) == ~word.some \/ word.s = <<>>

RECURSIVE StringEnd(_, _)
\* the position of the double quote that closes the string literal whose
\* inside goes on at position j, a backslash taking the character after it
\* with it; the length of the text when the literal is not closed
StringEnd(text, j) ==
    IF j >= Len(text) THEN Len(text)
    ELSE IF text[j + 1] = "\\" THEN StringEnd(text, j + 2)
    ELSE IF text[j + 1] = "\"" THEN j
    ELSE StringEnd(text, j + 1)

RECURSIVE OutsideLiterals(_, _, _)
\* position p of the text is in no string and no character literal that
\* starts at position i or later, and in no comment that starts before p
OutsideLiterals(text, i, p) ==
    IF i >= p THEN i = p
    ELSE LET c == text[i + 1]
             closing == IF Get(text, i + 1) = "\\" THEN i + 3 ELSE i + 2
         IN  IF c = "\""
             THEN OutsideLiterals(text, StringEnd(text, i + 1) + 1, p)
             ELSE IF c = "'" /\ Get(text, closing) = "'"
             THEN OutsideLiterals(text, closing + 1, p)
             ELSE IF c = "/" /\ Get(text, i + 1) = "/"
             THEN FALSE
             ELSE OutsideLiterals(text, i + 1, p)

RECURSIVE MatchSpans(_, _, _)
\* the positions of the occurrences of word that a repeated forward search
\* of the text finds, each search restarting at the end of the match before
MatchSpans(text, word, from) ==
    LET occ == {i \in from..Len(text) : OccursAt(text, word, i)}
    IN  IF occ = {} THEN {}
        ELSE (MinOf(occ)..(MinOf(occ) + Len(word) - 1))
             \cup MatchSpans(text, word, MinOf(occ) + Len(word))

\* C17: Row::highlight with a search word tags the positions of every
\* occurrence a repeated forward search finds Match, whatever their tag was,
\* and leaves the tag of every other position, the text and the number of
\* tags as the base pass gives them; without a search word, or with an
\* empty one, it changes no tag.
C17_MatchOverwritesSpans ==
    out.op = "highlight" =>
        LET base == RowHighlight(out.r, out.opts, NoWord).highlighting
            spans == IF NoSearchWord(out.word) THEN {}
                     ELSE MatchSpans(out.r.string, out.word.s, 0)
        IN  /\ row.string = out.r.string
            /\ Len(row.highlighting) = Len(base)
            /\ \A p \in 0..(Len(base) - 1) :
                  row.highlighting[p + 1] =
                     IF p \in spans THEN "Match" ELSE base[p + 1]

\* C18: after Row::highlight the row has exactly one tag per scalar value of
\* its text.
C18_OneTagPerScalar ==
    out.op = "highlight" => Len(row.highlighting) = Len(row.string)

\* the tags of the rules, in the order of the claim
RuleTags ==
    <<"Character", "Comment", "PrimaryKeywords", "SecondaryKeywords",
      "String", "Number">>

\* what each rule alone answers at a scan position, in the order of the claim
RuleAnswers(index, opts, chars) ==
    LET c == chars[index + 1]
    IN  <<highlight_char(index, <<>>, opts, c, chars),
          highlight_comment(index, <<>>, opts, c, chars),
          highlight_keywords(index, <<>>, chars, opts.primary_keywords,
                             "PrimaryKeywords"),
          highlight_keywords(index, <<>>, chars, opts.secondary_keywords,
                             "SecondaryKeywords"),
          highlight_string(index, <<>>, opts, c, chars),
          highlight_number(index, <<>>, opts, c, chars)>>

RECURSIVE FirstRuleTags(_, _, _)
\* the tags of the characters from a scan position on, when the first rule
\* that matches tags the characters it consumes and the scan goes on after
\* them
FirstRuleTags(index, opts, chars) ==
    IF index >= Len(chars) THEN <<>>
    ELSE LET answers == RuleAnswers(index, opts, chars)
             matching == {k \in 1..6 : answers[k].ok}
         IN  IF matching = {}
             THEN <<"None">> \o FirstRuleTags(index + 1, opts, chars)
             ELSE LET k == MinOf(matching)
                      next == Clamp(answers[k].index, Len(chars))
                  IN  Rep(RuleTags[k], next - index)
                      \o FirstRuleTags(answers[k].index, opts, chars)

\* the tags of Scenario A
ScenarioATags ==
    Rep("PrimaryKeywords", 3) \o Rep("None", 5) \o Rep("Number", 2)
    \o <<"None">>

\* C19: Row::highlight scans from left to right and tries the rules in the
\* order character literal, line comment, primary keyword, secondary
\* keyword, string literal, number; the first that matches tags the
\* characters it consumes, the scan goes on after them, and a character no
\* rule matches is tagged None.  Scenario A: let is a primary keyword, 42 a
\* number, everything else None.
C19_RulesInOrder ==
    (out.op = "highlight" /\ NoSearchWord(out.word)) =>
        /\ \A p \in 0..(Len(row.string) - 1) :
              row.highlighting[p + 1] =
                 FirstRuleTags(0, out.opts, row.string)[p + 1]
        /\ (row.string = ScenarioAText /\ out.opts = ScenarioAOptions)
           => row.highlighting = ScenarioATags

\* the row of Scenario A was highlighted with the rule set of Scenario A
C19_Witness ==
    /\ out.op = "highlight"
    /\ NoSearchWord(out.word)
    /\ row.string = ScenarioAText
    /\ out.opts = ScenarioAOptions

\* C20: with strings enabled, a backslash inside a string literal takes the
\* character after it with it, so that the String tags of a row that starts
\* with a double quote go on to the next double quote that no backslash
\* precedes, or to the end of the line; in "a\"b" every character is String.
C20_BackslashInString ==
    (/\ out.op = "highlight"
     /\ out.opts.strings
     /\ NoSearchWord(out.word)
     /\ BeginsWith(row.string, <<"\"">>))
    => \A p \in 0..Clamp(StringEnd(row.string, 1), Len(row.string) - 1) :
          row.highlighting[p + 1] = "String"

RECURSIVE NumberSpanStart(_, _)
\* the position at which the Number span that covers position p starts
NumberSpanStart(hl, p) ==
    IF p > 0 /\ hl[p] = "Number" THEN NumberSpanStart(hl, p - 1) ELSE p

\* the number of decimal points among the positions from..to of the text
Points(text, from, to) == Cardinality({q \in from..to : text[q + 1] = "."})

\* C21: with numbers enabled a digit is tagged Number only when the
\* character before it is a separator, the start of the line or a digit
\* tagged Number, and a Number span holds at most one decimal point: in
\* 1.2.3 the span does not cover the whole text, and in x42 no digit is
\* tagged Number.
C21_NumberRule ==
    (out.op = "highlight" /\ out.opts.numbers /\ NoSearchWord(out.word)) =>
        LET text == row.string
            hl == row.highlighting
            numbers == {p \in 0..(Len(text) - 1) : hl[p + 1] = "Number"}
        IN  /\ \A p \in numbers :
                  IsAsciiDigit(text[p + 1]) =>
                     \/ p = 0
                     \/ is_separator(text[p])
                     \/ (IsAsciiDigit(text[p]) /\ hl[p] = "Number")
            /\ \A p \in numbers :
                  Points(text, NumberSpanStart(hl, p), p) <= 1
            /\ text = TwoPointsText => numbers # 0..(Len(text) - 1)
            /\ text = DigitsAfterLetterText => numbers = {}

\* the keywords of a keyword tag
KeywordsOf(opts, tag) ==
    IF tag = "PrimaryKeywords" THEN opts.primary_keywords
    ELSE IF tag = "SecondaryKeywords" THEN opts.secondary_keywords
    ELSE <<>>

\* the keyword w stands at position s of the text as a word of its own:
\* after the start of the line or a separator, before the end of the line
\* or a separator
StandsAlone(text, w, s) ==
    /\ OccursAt(text, w, s)
    /\ s = 0 \/ is_separator(text[s])
    /\ s + Len(w) = Len(text) \/ is_separator(text[s + Len(w) + 1])

NoName == <<>>

\* the failures of the file system a save meets: File::create fails, or
\* the write of the text or of the line feed of the row y does, after the
\* rows before it were written
SaveFaults ==
    {NoFault, [at |-> "create", y |-> 0]}
    \cup [at : {"text", "newline"}, y : 0..(MaxRows - 1)]

\* Document::save that lowers the dirty flag whether or not it wrote every row
save_clearing_dirty(doc, f, fault) ==
    IF f.name = NoName \/ fault.at = "create"
    THEN [rows |-> doc.rows, dirty |-> FALSE, file_type |-> doc.file_type,
          contents |-> f.contents, calls |-> <<>>, ok |-> f.name = NoName]
    ELSE LET ftype == FileTypeFrom(f.name)
             n == IF fault.at = "none" THEN Len(doc.rows) ELSE fault.y
             h == DocHighlightLoop(SubSeq(doc.rows, 1, n),
                                   highlighting_options(ftype), NoWord, FALSE,
                                   <<>>, <<>>)
             partial == IF fault.at = "newline"
                        THEN as_bytes(doc.rows[n + 1]) ELSE <<>>
         IN  [rows |-> h.rows \o SubSeq(doc.rows, n + 1, Len(doc.rows)),
              dirty |-> FALSE,
              file_type |-> ftype,
              contents |-> DocSave(SubSeq(doc.rows, 1, n)) \o partial,
              calls |-> h.calls,
              ok |-> fault.at = "none"]

\* Document::save of the document doc = [rows, dirty, file_type] to the
\* file f under a fault: the document and the contents of the file after
\* it, its calls of Row::highlight and whether it returned Ok.  The rows
\* before the fault are written and highlighted, the others are not.
save(doc, f, fault) ==
    IF f.name = NoName \/ fault.at = "create"
    THEN [rows |-> doc.rows, dirty |-> doc.dirty, file_type |-> doc.file_type,
          contents |-> f.contents, calls |-> <<>>, ok |-> f.name = NoName]
    ELSE LET ftype == FileTypeFrom(f.name)
             n == IF fault.at = "none" THEN Len(doc.rows) ELSE fault.y
             h == DocHighlightLoop(SubSeq(doc.rows, 1, n),
                                   highlighting_options(ftype), NoWord, FALSE,
                                   <<>>, <<>>)
             partial == IF fault.at = "newline"
                        THEN as_bytes(doc.rows[n + 1]) ELSE <<>>
         IN  [rows |-> h.rows \o SubSeq(doc.rows, n + 1, Len(doc.rows)),
              dirty |-> IF fault.at = "none" THEN FALSE ELSE doc.dirty,
              file_type |-> ftype,
              contents |-> DocSave(SubSeq(doc.rows, 1, n)) \o partial,
              calls |-> h.calls,
              ok |-> fault.at = "none"]

\* the names of the files of the document
DocFileNames == {<<"a", ".", "r", "s">>}

\* the files a document is opened from
DocFiles ==
    [name : DocFileNames, contents : {<<"a", "\n", "a", "\n">>}]

\* the positions and the characters of the edits
DocPositions == [x : 0..1, y : 0..MaxRows]

DocInputs == {"a", "\n"}

\* the search words Document::highlight is called with
DocWords == {NoWord, SomeWord(<<"a">>)}

\* the document of an editor started without a file
InitDoc ==
    /\ rows = <<>>
    /\ dirty = FALSE
    /\ file_type = "No filetype"
    /\ file = [name |-> NoName, contents |-> <<>>, clean |-> <<>>]
    /\ out = NoOut
    /\ dlog = NoDLog
    /\ search = NoSearch
    /\ row = RowDefault
    /\ spare = RowDefault
    /\ rlog = NoLog

\* the result of the operation before was taken
Ready == Idle /\ out.op = "none"

\* Document::default()
Create ==
    /\ Ready
    /\ rows' = <<>>
    /\ dirty' = FALSE
    /\ file_type' = "No filetype"
    /\ file' = [name |-> NoName, contents |-> <<>>, clean |-> <<>>]
    /\ out' = [NoOut EXCEPT !.op = "create", !.pre = rows, !.predirty = dirty]
    /\ UNCHANGED <<dlog, search, rowVars>>

\* Document::open(f.name), the file holding f.contents
OpenDocument(f) ==
    /\ Ready
    /\ \E h \in {OpenLoop(lines(Utf8Decode(f.contents)), FileTypeFrom(f.name))} :
          /\ rows' = h.rows
          /\ file' = [name |-> f.name, contents |-> f.contents,
                      clean |-> [i \in 1..Len(h.rows) |-> h.rows[i].string]]
          /\ out' = [NoOut EXCEPT !.op = "open", !.calls = h.calls,
                                  !.pre = rows, !.predirty = dirty]
    /\ dirty' = FALSE
    /\ file_type' = FileTypeFrom(f.name)
    /\ UNCHANGED <<dlog, search, rowVars>>

\* the editor gives the document without a name the name it asked for
SetFileName(name) ==
    /\ Ready
    /\ file.name = NoName
    /\ file' = [file EXCEPT !.name = name]
    /\ UNCHANGED <<rowVars, docVars, out>>

\* Document::save()
SaveDocument(fault) ==
    /\ Ready
    /\ fault.at \in {"text", "newline"} => fault.y < Len(rows)
    /\ \E r \in {save([rows |-> rows, dirty |-> dirty, file_type |-> file_type],
                      file, fault)} :
          /\ rows' = r.rows
          /\ dirty' = r.dirty
          /\ file_type' = r.file_type
          /\ file' = [file EXCEPT
                         !.contents = r.contents,
                         !.clean = IF r.ok /\ file.name # NoName
                                   THEN [i \in 1..Len(rows) |-> rows[i].string]
                                   ELSE @]
          /\ out' = [NoOut EXCEPT !.op = "save", !.calls = r.calls,
                                  !.flag = r.ok, !.fault = fault,
                                  !.pre = rows, !.predirty = dirty]
    /\ UNCHANGED <<dlog, search, rowVars>>

\* Document::insert(at, c)
InsertInDocument(at, c) == Ready /\ Insert(at, c)

\* Document::delete(at)
DeleteInDocument(at) == Ready /\ Delete(at)

\* Document::highlight(word)
HighlightForSearch(word) == Ready /\ HighlightDocument(word)

NextDoc ==
    \/ Create
    \/ \E f \in DocFiles : OpenDocument(f)
    \/ \E name \in DocFileNames : SetFileName(name)
    \/ \E fault \in SaveFaults : SaveDocument(fault)
    \/ \E at \in DocPositions, c \in DocInputs : InsertInDocument(at, c)
    \/ \E at \in DocPositions : DeleteInDocument(at)
    \/ Taken
    \/ Returned

SpecDoc == InitDoc /\ [][NextDoc]_vars

(***************************************************************************)
(* One pass or one edit of a document that was opened from a file and      *)
(* highlighted for a search word, as the editor does when a search ends.   *)
(***************************************************************************)
\* the lines of the files of these documents
PassContents ==
    {<<<<"a">>, <<"a">>>>, <<<<"/", "/">>, <<"a">>>>, <<<<"a", "a">>>>,
     <<<<"a", "M">>, <<>>>>}

InitPass ==
    /\ file \in [name : FileNames,
                 contents : {DocSave([i \in 1..Len(ls) |-> RowFrom(ls[i])]) :
                                ls \in PassContents},
                 clean : PassContents]
    /\ file.clean = lines(Utf8Decode(file.contents))
    /\ file_type = FileTypeFrom(file.name)
    /\ rows \in {DocHighlight(DocOpen(file), file_type, word).rows :
                    word \in DocWords}
    /\ dirty = FALSE
    /\ out = NoOut
    /\ dlog = NoDLog
    /\ search = NoSearch
    /\ row = RowDefault
    /\ spare = RowDefault
    /\ rlog = NoLog

NextPass ==
    \/ \E f \in DocFiles : OpenDocument(f)
    \/ \E fault \in SaveFaults : SaveDocument(fault)
    \/ \E at \in DocPositions, c \in DocInputs : InsertInDocument(at, c)
    \/ \E at \in DocPositions : DeleteInDocument(at)
    \/ \E word \in DocWords : HighlightForSearch(word)

SpecPass == InitPass /\ [][NextPass]_vars

(***************************************************************************)
(* Claims about the document's highlighting passes and its dirty flag.     *)
(***************************************************************************)
\* the calls are those of the rows 0, 1, ... in that order, the first with
\* the flag false, each later one with the flag the call before it returned
Threaded(calls) ==
    \A i \in 1..Len(calls) :
       /\ calls[i].y = i - 1
       /\ calls[i].start_with_comment =
             (IF i = 1 THEN FALSE ELSE calls[i - 1].ret)

\* the number of rows a pass over the document highlights: all of them,
\* but those before the fault in a save that fails, and none in a save
\* that creates no file
RowsHighlighted ==
    IF out.op # "save" THEN Len(rows)
    ELSE IF file.name = NoName \/ out.fault.at = "create" THEN 0
    ELSE IF out.fault.at = "none" THEN Len(rows)
    ELSE out.fault.y

\* the 0-based indices of the rows the edit dlog holds has edited
EditedRows ==
    IF dlog.at.y > Len(dlog.pre) \/ (dlog.op = "delete" /\ dlog.at.y = Len(dlog.pre))
    THEN {}
    ELSE IF dlog.op = "insert" /\ dlog.c = "\n" /\ dlog.at.y < Len(dlog.pre)
    THEN {dlog.at.y, dlog.at.y + 1}
    ELSE {dlog.at.y}

C24_DirtyFlag ==
    /\ ~dirty => RowTexts(rows) = file.clean
    /\ (dlog.op \in {"insert", "delete"}
        /\ RowTexts(rows) # RowTexts(dlog.pre)) => dirty
    /\ (out.op \in {"save", "dochighlight"} /\ out.predirty /\ ~dirty) =>
          /\ out.op = "save"
          /\ out.flag
          /\ out.fault = NoFault
          /\ file.name # NoName
          /\ file.contents = DocSave(rows)

\* a save of an edited document of two rows wrote every row and lowered
\* the flag
C24_Witness ==
    /\ out.op = "save"
    /\ out.predirty
    /\ ~dirty
    /\ Len(rows) = 2
    /\ RowTexts(rows) # <<<<"a">>, <<"a">>>>

====
